---------------------------- MODULE Spec2Model ----------------------------
(***************************************************************************)
(* A state-machine model of django_openstack_auth (openstack_auth/utils.py *)
(* and openstack_auth/user.py): token validity, the User object's          *)
(* authorization predicates, the process-wide project cache and the        *)
(* request/session wiring.                                                 *)
(*                                                                         *)
(* Conventions.                                                            *)
(*   - Python's None is the empty tuple <<>>; a present value x is <<x>>.  *)
(*   - A call's outcome is a record [exc, val]: exc = "none" when the call *)
(*     returned val, otherwise the name of the exception it raised.        *)
(*   - Text that the code converts or orders (role names, project names)   *)
(*     is a sequence of ASCII code points, so that lower() and the sort    *)
(*     key are computed; opaque identifiers (token ids, permission names,  *)
(*     session keys) are TLA+ strings.                                     *)
(*   - A datetime is [wall, aware, off]: the wall-clock reading in         *)
(*     seconds, whether it carries a tzinfo, and that tzinfo's UTC offset. *)
(***************************************************************************)
EXTENDS Integers, Sequences, FiniteSets, TLC

VARIABLES
    settings,        \* django.conf.settings: the keys the code reads
    clock,           \* the real time, in seconds UTC
    user,            \* the User object under consideration
    cache,           \* utils._PROJECT_CACHE
    request,         \* the HttpRequest: session, _cached_user, user
    input,           \* the argument drawn for the call under study
    ret,             \* the last call: operation, arguments, outcome
    fetch,           \* the last get_project_list invocation (history)
    listed,          \* token id -> the list get_project_list last returned for
                     \* it, forgotten at remove_project_cache (history)
    removedSince,    \* token ids whose entry remove_project_cache took out of
                     \* the cache and that were not queried since (history)
    backendLookups,  \* number of backend.get_user calls (history)
    lookup,          \* the get_user calls middleware_get_user made on this
                     \* request, and the user the first one stored (history)
    procs,           \* the concurrent callers of the project cache: position
                     \* in the wrapper and local variables
    upstream         \* the lists the listing calls of the concurrent callers
                     \* returned, with the token of the call (history)

vars == <<settings, clock, user, cache, request, input, ret,
          fetch, listed, removedSince, backendLookups, lookup, procs,
          upstream>>

(***************************************************************************)
(* Bounds of the model.                                                    *)
(***************************************************************************)
MaxTime == 3
MaxMargin == 2
MaxOffset == 1

(***************************************************************************)
(* Python values.                                                          *)
(***************************************************************************)
None == <<>>
Some(x) == <<x>>

Ret(v) == [exc |-> "none", val |-> v]
Raise(e) == [exc |-> e, val |-> FALSE]

NoCall == [op |-> "none"]

(***************************************************************************)
(* datetime, django.utils.timezone.                                        *)
(***************************************************************************)
DateTimes ==
    { [wall |-> w, aware |-> FALSE, off |-> 0] : w \in 0..MaxTime } \cup
    { [wall |-> w, aware |-> TRUE, off |-> o] : w \in 0..MaxTime, o \in 0..MaxOffset }

\* expiration - datetime.timedelta(seconds=margin): the tzinfo is kept.
timedelta_sub(dt, seconds) == [dt EXCEPT !.wall = dt.wall - seconds]

\* timezone.is_naive(value)
is_naive(dt) == ~dt.aware

\* timezone.make_aware(value, timezone.utc): the reading is kept, tzinfo is UTC.
make_aware_utc(dt) == [dt EXCEPT !.aware = TRUE, !.off = 0]

\* timezone.now(): an aware UTC datetime under USE_TZ, else the naive local time.
timezone_now(st, clk) ==
    IF st.USE_TZ
    THEN [wall |-> clk, aware |-> TRUE, off |-> 0]
    ELSE [wall |-> clk + st.LOCAL_OFFSET, aware |-> FALSE, off |-> 0]

\* a > b on datetimes: instants when both are aware, readings when both are
\* naive, TypeError ("can't compare offset-naive and offset-aware datetimes")
\* when they differ.
datetime_gt(a, b) ==
    IF a.aware # b.aware THEN Raise("TypeError")
    ELSE IF a.aware THEN Ret((a.wall - a.off) > (b.wall - b.off))
    ELSE Ret(a.wall > b.wall)

(***************************************************************************)
(* Settings.                                                               *)
(***************************************************************************)
Margins == 0..MaxMargin

Settings ==
    [ USE_TZ : BOOLEAN,
      TOKEN_TIMEOUT_MARGIN : {None} \cup { Some(m) : m \in Margins },
      LOCAL_OFFSET : 0..MaxOffset,
      IDENTITY_API_VERSION : {None, Some(2), Some(3)} ]

\* getattr(settings, 'TOKEN_TIMEOUT_MARGIN', 0)
getattr_TOKEN_TIMEOUT_MARGIN(st) ==
    IF st.TOKEN_TIMEOUT_MARGIN = None THEN 0 ELSE st.TOKEN_TIMEOUT_MARGIN[1]

(***************************************************************************)
(* Tokens.                                                                 *)
(***************************************************************************)
TokenIds == {"t1", "t2"}

Expiries == {None} \cup { Some(d) : d \in DateTimes }

Tokens == [ id : TokenIds, expires : Expiries ]

\* utils.is_token_valid(token, margin=None)
is_token_valid_no_none_check(token, margin, st, clk) ==
    LET expiration == token.expires
        m == IF margin = None THEN getattr_TOKEN_TIMEOUT_MARGIN(st) ELSE margin[1]
    IN  IF expiration = None THEN Raise("TypeError")
        ELSE LET e1 == timedelta_sub(expiration[1], m)
                 e2 == IF st.USE_TZ /\ is_naive(e1) THEN make_aware_utc(e1) ELSE e1
             IN  datetime_gt(e2, timezone_now(st, clk))

is_token_valid(token, margin, st, clk) ==
    LET expiration == token.expires
    IN  IF expiration = None THEN Ret(FALSE)
        ELSE LET m == IF margin = None
                      THEN getattr_TOKEN_TIMEOUT_MARGIN(st)
                      ELSE margin[1]
                 e1 == timedelta_sub(expiration[1], m)
                 e2 == IF st.USE_TZ /\ is_naive(e1) THEN make_aware_utc(e1) ELSE e1
             IN  datetime_gt(e2, timezone_now(st, clk))

\* utils.check_token_expiration(token): the name user.py imports; the token
\* validity check with the default margin.
check_token_expiration(token, st, clk) == is_token_valid(token, None, st, clk)

(***************************************************************************)
(* Text: str.lower() and the ordering of str, on ASCII code points.        *)
(***************************************************************************)
\* one character of str.lower(): 'A'..'Z' (65..90) map to 'a'..'z'
LowerChar(c) == IF c \in 65..90 THEN c + 32 ELSE c

\* str.lower()
Lower(s) == [i \in DOMAIN s |-> LowerChar(s[i])]

\* a < b on str: lexicographic on code points, a proper prefix is smaller
RECURSIVE StrLess(_, _)
StrLess(a, b) ==
    IF b = <<>> THEN FALSE
    ELSE IF a = <<>> THEN TRUE
    ELSE IF Head(a) # Head(b) THEN Head(a) < Head(b)
    ELSE StrLess(Tail(a), Tail(b))

s_admin == <<97, 100, 109, 105, 110>>                   \* 'admin'
s_Admin == <<65, 100, 109, 105, 110>>                   \* 'Admin'
s_ADMIN == <<65, 68, 77, 73, 78>>                       \* 'ADMIN'
s_admins == <<97, 100, 109, 105, 110, 115>>             \* 'admins'
s_member == <<109, 101, 109, 98, 101, 114>>             \* 'member'

(***************************************************************************)
(* The User object (user.py).                                              *)
(***************************************************************************)
\* User.__init__: the attributes the modelled methods read.  perms stands for
\* the permissions the authentication backends grant this user.
User(id, token, roles, authorized_tenants, endpoint, services_region, perms) ==
    [ class |-> "User",
      id |-> id,
      token |-> token,
      roles |-> roles,                    \* roles or []
      endpoint |-> endpoint,
      services_region |-> services_region,
      authorized_tenants |-> authorized_tenants,
      project_id |-> None,                \* project_id=None, tenant_id=None
      project_name |-> None,
      tenant_id |-> None,
      tenant_name |-> None,
      perms |-> perms ]

\* User(): every keyword argument at its default
DefaultUser == User("", None, <<>>, None, "", "", {})

\* django.contrib.auth.models.AnonymousUser()
AnonymousUser == [DefaultUser EXCEPT !.class = "AnonymousUser"]

\* User.is_authenticated()
is_authenticated(u, st, clk) ==
    IF u.token = None THEN Ret(FALSE)
    ELSE check_token_expiration(u.token[1], st, clk)

\* User.is_anonymous()
is_anonymous(u, st, clk) ==
    LET r == is_authenticated(u, st, clk)
    IN  IF r.exc # "none" THEN r ELSE Ret(~r.val)

(***************************************************************************)
(* Token validity and authentication: the calls.                           *)
(***************************************************************************)
EmptyCache == <<>>

\* a request on which neither _cached_user nor user has been set
EmptyRequest ==
    [ session |-> <<>>, has_cached_user |-> FALSE,
      _cached_user |-> AnonymousUser, user |-> None ]

OneIdTokens == { t \in Tokens : t.id = "t1" }

\* middleware_get_user has not called get_user on this request
NoLookup == [calls |-> 0, stored |-> None]

Idle ==
    /\ lookup = NoLookup
    /\ procs = <<>>
    /\ upstream = {}
    /\ cache = EmptyCache
    /\ request = EmptyRequest
    /\ ret = NoCall
    /\ fetch = NoCall
    /\ listed = <<>>
    /\ removedSince = {}
    /\ backendLookups = 0

InitToken ==
    /\ settings \in { st \in Settings : st.IDENTITY_API_VERSION = None }
    /\ clock = 0
    /\ \E tok \in {None} \cup { Some(t) : t \in OneIdTokens } :
          user = User("u1", tok, <<>>, None, "", "", {})
    /\ input = None
    /\ Idle

\* time passes
Tick ==
    /\ clock < MaxTime
    /\ clock' = clock + 1
    /\ UNCHANGED <<lookup, procs, upstream, settings, user, cache, request,
                   input, ret, fetch, listed, removedSince, backendLookups>>

\* is_token_valid(user.token, margin) and is_token_valid(user.token)
CallIsTokenValid ==
    \E margin \in {None} \cup { Some(m) : m \in Margins } :
        /\ user.token # None
        /\ ret' = [ op |-> "is_token_valid", token |-> user.token[1],
                    margin |-> margin, at |-> clock,
                    result |-> is_token_valid(user.token[1], margin,
                                              settings, clock) ]
        /\ UNCHANGED <<lookup, procs, upstream, settings, clock, user, cache,
                       request, input, fetch, listed, removedSince,
                       backendLookups>>

CallIsAuthenticated ==
    /\ ret' = [ op |-> "is_authenticated", at |-> clock,
                result |-> is_authenticated(user, settings, clock) ]
    /\ UNCHANGED <<lookup, procs, upstream, settings, clock, user, cache,
                   request, input, fetch, listed, removedSince,
                   backendLookups>>

CallIsAnonymous ==
    /\ ret' = [ op |-> "is_anonymous", at |-> clock,
                result |-> is_anonymous(user, settings, clock) ]
    /\ UNCHANGED <<lookup, procs, upstream, settings, clock, user, cache,
                   request, input, fetch, listed, removedSince,
                   backendLookups>>

NextToken ==
    \/ Tick
    \/ CallIsTokenValid
    \/ CallIsAuthenticated
    \/ CallIsAnonymous

SpecToken == InitToken /\ [][NextToken]_vars

(***************************************************************************)
(* Claims about token validity and authentication (SpecToken).             *)
(***************************************************************************)
\* the margin a call recorded in ret works with: the explicit one, or the
\* configured TOKEN_TIMEOUT_MARGIN (0 when not configured)
MarginOf(call) ==
    IF call.margin # None THEN call.margin[1]
    ELSE IF settings.TOKEN_TIMEOUT_MARGIN # None THEN settings.TOKEN_TIMEOUT_MARGIN[1]
    ELSE 0

\* the reading of a datetime on the time line the framework compares on: the
\* UTC instant of an aware datetime, the reading itself of a naive one
Reading(dt) == IF dt.aware THEN dt.wall - dt.off ELSE dt.wall

\* the current time as the framework reads it at real time t
NowReading(t) == IF settings.USE_TZ THEN t ELSE t + settings.LOCAL_OFFSET

\* the datetimes the framework can order against its current time: under
\* USE_TZ every expiry (a naive one is taken as UTC), otherwise the naive ones
Comparable(dt) == settings.USE_TZ \/ ~dt.aware

\* C1: for every token with a non-null expiry, every margin and every current
\* time, is_token_valid returns (it does not raise), and returns true iff
\* expiry - margin is strictly greater than the current time.
C1_ValidIffStrictlyLater ==
    (ret.op = "is_token_valid" /\ ret.token.expires # None) =>
        /\ ret.result.exc = "none"
        /\ ret.result.val <=>
              (Reading(ret.token.expires[1]) - MarginOf(ret) > NowReading(ret.at))

\* The part of C1 the code keeps: whenever the expiry can be ordered against
\* the framework's current time, the result is the strict comparison.
TokenValidWhenComparable ==
    (ret.op = "is_token_valid" /\ ret.token.expires # None
        /\ Comparable(ret.token.expires[1])) =>
        /\ ret.result.exc = "none"
        /\ ret.result.val <=>
              (Reading(ret.token.expires[1]) - MarginOf(ret) > NowReading(ret.at))

\* C2: is_token_valid returns false, and does not raise, for every token whose
\* expiry is None, whatever the margin and the current time.
C2_NoExpiryIsInvalid ==
    (ret.op = "is_token_valid" /\ ret.token.expires = None) =>
        ret.result = Ret(FALSE)

\* C2 witness: a call on a token without expiry, with an explicit margin, made
\* after time has passed.
C2_Witness ==
    /\ ret.op = "is_token_valid"
    /\ ret.token.expires = None
    /\ ret.margin # None
    /\ ret.at > 0

\* the token validity check holds for the user's token at real time t
TokenCheckHolds(t) ==
    /\ user.token # None
    /\ is_token_valid(user.token[1], None, settings, t) = Ret(TRUE)

\* C3: a User is authenticated iff its token is non-null and the validity check
\* holds at the time of the call, and is_anonymous() is the exact negation: both
\* calls return, with opposite answers.
C3_AuthenticatedXorAnonymous ==
    /\ ret.op = "is_authenticated" =>
          /\ ret.result.exc = "none"
          /\ ret.result.val <=> TokenCheckHolds(ret.at)
    /\ ret.op = "is_anonymous" =>
          /\ ret.result.exc = "none"
          /\ ret.result.val <=> ~TokenCheckHolds(ret.at)

\* The part of C3 the code keeps: whenever is_authenticated() returns, the
\* answers are the claim's.
AuthenticatedWhenComparable ==
    /\ (ret.op = "is_authenticated" /\ ret.result.exc = "none") =>
          (ret.result.val <=> TokenCheckHolds(ret.at))
    /\ (ret.op = "is_anonymous" /\ ret.result.exc = "none") =>
          (ret.result.val <=> ~TokenCheckHolds(ret.at))
    /\ ret.op \in {"is_authenticated", "is_anonymous"} =>
          (ret.result.exc # "none" <=>
              /\ user.token # None
              /\ user.token[1].expires # None
              /\ ~Comparable(user.token[1].expires[1]))

(***************************************************************************)
(* Authorization predicates of User (user.py).                             *)
(***************************************************************************)
MaxPermList == 2
MaxTuple == 2
MaxRoles == 2

SeqsUpTo(S, n) == UNION { [1..k -> S] : k \in 0..n }

Perms == {"a", "b", "c"}

\* an element of a has_perms list: a permission string, or a tuple of them
PermStr(p) == [isstr |-> TRUE, perm |-> p, alts |-> <<>>]
PermTuple(t) == [isstr |-> FALSE, perm |-> "", alts |-> t]

PermTuples == SeqsUpTo(Perms, MaxTuple)
PermElements == { PermStr(p) : p \in Perms } \cup { PermTuple(t) : t \in PermTuples }
PermLists == SeqsUpTo(PermElements, MaxPermList)

RoleNames == {s_admin, s_Admin, s_ADMIN, s_admins, s_member}
RoleLists == SeqsUpTo({ [name |-> n] : n \in RoleNames }, MaxRoles)

\* User.has_perm(perm, obj), inherited: whether a backend grants perm
has_perm(u, perm) == perm \in u.perms

\* User.has_a_matching_perm(perm_list): the for loop
RECURSIVE has_a_matching_perm_loop(_, _)
has_a_matching_perm_loop(u, perm_list) ==
    IF perm_list = <<>> THEN FALSE
    ELSE IF has_perm(u, Head(perm_list)) THEN TRUE
    ELSE has_a_matching_perm_loop(u, Tail(perm_list))

\* User.has_a_matching_perm(perm_list)
has_a_matching_perm_first_only(u, perm_list) ==
    IF perm_list = <<>> THEN TRUE
    ELSE has_perm(u, Head(perm_list))

has_a_matching_perm(u, perm_list) ==
    IF perm_list = <<>> THEN TRUE
    ELSE has_a_matching_perm_loop(u, perm_list)

\* User.has_perms(perm_list): the for loop
RECURSIVE has_perms_loop(_, _)
has_perms_loop(u, perm_list) ==
    IF perm_list = <<>> THEN TRUE
    ELSE LET perm == Head(perm_list)
         IN  IF perm.isstr
             THEN IF ~has_perm(u, perm.perm) THEN FALSE
                  ELSE has_perms_loop(u, Tail(perm_list))
             ELSE IF ~has_a_matching_perm(u, perm.alts) THEN FALSE
                  ELSE has_perms_loop(u, Tail(perm_list))

\* has_perms with the tuples read as conjunctions
RECURSIVE has_perms_all_of_tuple(_, _)
has_perms_all_of_tuple(u, perm_list) ==
    IF perm_list = <<>> THEN TRUE
    ELSE LET perm == Head(perm_list)
         IN  IF perm.isstr
             THEN has_perm(u, perm.perm) /\ has_perms_all_of_tuple(u, Tail(perm_list))
             ELSE /\ \A i \in DOMAIN perm.alts : has_perm(u, perm.alts[i])
                  /\ has_perms_all_of_tuple(u, Tail(perm_list))

\* User.has_perms(perm_list)
has_perms(u, perm_list) ==
    IF perm_list = <<>> THEN TRUE
    ELSE has_perms_loop(u, perm_list)

\* User.is_superuser
is_superuser_case_sensitive(u) ==
    \E i \in DOMAIN u.roles : u.roles[i].name = s_admin

is_superuser(u) ==
    \E i \in DOMAIN u.roles : Lower(u.roles[i].name) = s_admin

\* The user holds some permissions and a permission list or a tuple is drawn,
\* or the user has some roles.
InitPerms ==
    /\ settings \in { st \in Settings : /\ st.USE_TZ
                                         /\ st.TOKEN_TIMEOUT_MARGIN = None
                                         /\ st.LOCAL_OFFSET = 0
                                         /\ st.IDENTITY_API_VERSION = None }
    /\ clock = 0
    /\ \/ /\ \E perms \in SUBSET Perms :
                user = User("u1", None, <<>>, None, "", "", perms)
          /\ \/ \E pl \in PermLists : input = [kind |-> "perm_list", arg |-> pl]
             \/ \E t \in PermTuples : input = [kind |-> "tuple", arg |-> t]
       \/ /\ \E roles \in RoleLists :
                user = User("u1", None, roles, None, "", "", {})
          /\ input = [kind |-> "none", arg |-> <<>>]
    /\ Idle

CallHasPerms ==
    /\ input.kind = "perm_list"
    /\ ret' = [ op |-> "has_perms", perm_list |-> input.arg,
                result |-> has_perms(user, input.arg) ]
    /\ UNCHANGED <<lookup, procs, upstream, settings, clock, user, cache,
                   request, input, fetch, listed, removedSince,
                   backendLookups>>

CallHasAMatchingPerm ==
    /\ input.kind = "tuple"
    /\ ret' = [ op |-> "has_a_matching_perm", perm_list |-> input.arg,
                result |-> has_a_matching_perm(user, input.arg) ]
    /\ UNCHANGED <<lookup, procs, upstream, settings, clock, user, cache,
                   request, input, fetch, listed, removedSince,
                   backendLookups>>

CallIsSuperuser ==
    /\ input.kind = "none"
    /\ ret' = [ op |-> "is_superuser", result |-> is_superuser(user) ]
    /\ UNCHANGED <<lookup, procs, upstream, settings, clock, user, cache,
                   request, input, fetch, listed, removedSince,
                   backendLookups>>

NextPerms ==
    \/ CallHasPerms
    \/ CallHasAMatchingPerm
    \/ CallIsSuperuser

SpecPerms == InitPerms /\ [][NextPerms]_vars

(***************************************************************************)
(* Claims about the authorization predicates (SpecPerms).                  *)
(***************************************************************************)
Range(f) == { f[i] : i \in DOMAIN f }

\* the user holds at least one of the permissions of the tuple t
HoldsOneOf(t) == Range(t) \cap user.perms # {}

\* C4: for a permission list whose tuple elements are non-empty, has_perms is
\* true iff the user holds every string element and, for every tuple element,
\* at least one member of the tuple; has_perms([]) is true; has_perms([('a','b')])
\* is true iff 'a' or 'b' is held; has_perms(['a', ('b','c')]) is true iff 'a' is
\* held and 'b' or 'c' is held.
C4_HasPermsAndOfOrs ==
    ret.op = "has_perms" =>
        LET pl == ret.perm_list
            strs == { pl[i].perm : i \in { j \in DOMAIN pl : pl[j].isstr } }
            tuples == { pl[i].alts : i \in { j \in DOMAIN pl : ~pl[j].isstr } }
        IN  /\ (\A t \in tuples : t # <<>>) =>
                  (ret.result <=>
                       (strs \subseteq user.perms /\ \A t \in tuples : HoldsOneOf(t)))
            /\ pl = <<>> => ret.result
            /\ pl = <<PermTuple(<<"a", "b">>)>> =>
                  (ret.result <=> ("a" \in user.perms \/ "b" \in user.perms))
            /\ pl = <<PermStr("a"), PermTuple(<<"b", "c">>)>> =>
                  (ret.result <=>
                       ("a" \in user.perms
                          /\ ("b" \in user.perms \/ "c" \in user.perms)))

\* C4 witness: has_perms(['a', ('b','c')]) answered true for a user who holds
\* 'a' and 'c' and not 'b'.
C4_Witness ==
    /\ ret.op = "has_perms"
    /\ ret.perm_list = <<PermStr("a"), PermTuple(<<"b", "c">>)>>
    /\ user.perms = {"a", "c"}
    /\ ret.result

\* C5 as stated: for every tuple, of any length including 0, has_a_matching_perm
\* is true iff the user holds at least one member of it.
C5_MatchingPermIffHoldsOne ==
    ret.op = "has_a_matching_perm" =>
        (ret.result <=> HoldsOneOf(ret.perm_list))

\* C5 amended: for every non-empty tuple has_a_matching_perm is true iff the
\* user holds at least one member of it, and for the empty tuple it is true.
C5_MatchingPermNonEmpty ==
    ret.op = "has_a_matching_perm" =>
        /\ ret.perm_list # <<>> => (ret.result <=> HoldsOneOf(ret.perm_list))
        /\ ret.perm_list = <<>> => ret.result

\* C5 witness: a two-member tuple of which the user holds only the second.
C5_Witness ==
    /\ ret.op = "has_a_matching_perm"
    /\ Len(ret.perm_list) = 2
    /\ ret.perm_list[1] \notin user.perms
    /\ ret.perm_list[2] \in user.perms
    /\ ret.result

\* two characters are the same letter up to case
SameLetter(c, d) ==
    \/ c = d
    \/ c \in 65..90 /\ d = c + 32
    \/ d \in 65..90 /\ c = d + 32

\* two names are equal when compared case-insensitively
EqualIgnoringCase(a, b) ==
    /\ Len(a) = Len(b)
    /\ \A i \in DOMAIN a : SameLetter(a[i], b[i])

\* C6: is_superuser is true iff at least one role's name equals 'admin' compared
\* case-insensitively; it is false for an empty role list and when 'admin' only
\* occurs as a substring of a name.
C6_SuperuserIffAdminRole ==
    ret.op = "is_superuser" =>
        /\ ret.result <=>
              \E i \in DOMAIN user.roles :
                  EqualIgnoringCase(user.roles[i].name, s_admin)
        /\ user.roles = <<>> => ~ret.result
        /\ Range(user.roles) \subseteq {[name |-> s_admins], [name |-> s_member]}
              => ~ret.result

\* C6 witness: a superuser none of whose roles is spelled 'admin' in lower case.
C6_Witness ==
    /\ ret.op = "is_superuser"
    /\ ret.result
    /\ user.roles # <<>>
    /\ \A i \in DOMAIN user.roles : user.roles[i].name # s_admin

(***************************************************************************)
(* The project cache (utils.py) and User.authorized_tenants (user.py).     *)
(***************************************************************************)
MaxCacheTime == 1

RetL(l) == [exc |-> "none", val |-> l]
RaiseL(e) == [exc |-> e, val |-> <<>>]

s_alpha == <<97, 108, 112, 104, 97>>                    \* 'alpha'
s_Beta == <<66, 101, 116, 97>>                          \* 'Beta'

Projects == { [name |-> n] : n \in {s_alpha, s_Beta} }
\* a listing names each project once
ProjectLists ==
    { l \in SeqsUpTo(Projects, Cardinality(Projects)) :
        \A i, j \in DOMAIN l : i # j => l[i] # l[j] }

UserIds == {"u1", "u2"}

\* what the identity service answers to a listing call: a list of projects in
\* any order, or an error of keystoneclient, or any other error
UpstreamResponses ==
    { RetL(l) : l \in ProjectLists } \cup
    { RaiseL(e) : e \in {"ClientException", "AuthorizationFailure", "Exception"} }

\* the keyword arguments of a get_project_list call that the code reads
Kwargs ==
    { [has_token |-> TRUE, token |-> t, user_id |-> u, is_federated |-> f] :
          t \in TokenIds, u \in UserIds, f \in BOOLEAN } \cup
    { [has_token |-> FALSE, token |-> "", user_id |-> u, is_federated |-> f] :
          u \in UserIds, f \in BOOLEAN }

\* get_keystone_version(): getattr(settings, 'OPENSTACK_API_VERSIONS',
\* {}).get('identity', 2.0)
get_keystone_version(st) ==
    IF st.IDENTITY_API_VERSION = None THEN 2 ELSE st.IDENTITY_API_VERSION[1]

\* the sort key of get_project_list: project.name.lower()
sort_key(project) == Lower(project.name)

\* list.sort(key=...) is stable: an element goes after those whose key is not
\* greater than its own
RECURSIVE InsertByKey(_, _)
InsertByKey(l, x) ==
    IF l = <<>> THEN <<x>>
    ELSE IF StrLess(sort_key(x), sort_key(Head(l))) THEN <<x>> \o l
    ELSE <<Head(l)>> \o InsertByKey(Tail(l), x)

RECURSIVE SortFrom(_, _)
SortFrom(sorted, rest) ==
    IF rest = <<>> THEN sorted
    ELSE SortFrom(InsertByKey(sorted, Head(rest)), Tail(rest))

\* projects.sort(key=lambda project: project.name.lower())
SortProjects(projects) == SortFrom(<<>>, projects)

\* the listing call get_project_list sends
listing_call(kwargs, st) ==
    IF get_keystone_version(st) < 3 THEN "tenants.list"
    ELSE IF kwargs.is_federated THEN "federation.projects.list"
    ELSE "projects.list"

\* get_project_list, the decorated function: kwargs['token'] raises KeyError
\* before any call is sent; the auth_url (rewritten by fix_auth_url_version)
\* only addresses the identity service, whose answer is resp.
get_project_list_func(kwargs, st, resp) ==
    IF ~kwargs.has_token
    THEN [result |-> RaiseL("KeyError"), api |-> "none"]
    ELSE [ result |-> IF resp.exc # "none" THEN resp
                      ELSE RetL(SortProjects(resp.val)),
           api |-> listing_call(kwargs, st) ]

\* mem_args of memoize_by_keyword_arg(_PROJECT_CACHE, ('token', )): the values
\* of the keys present, each through str(), joined by '__'
MemArgs(kwargs) == IF kwargs.has_token THEN kwargs.token ELSE ""

\* cache[key] = value
Store_appending(c, key, value) ==
    [k \in DOMAIN c \cup {key} |->
        IF k = key THEN (IF key \in DOMAIN c THEN c[key] \o value ELSE value)
        ELSE c[k]]

Store(c, key, value) ==
    [k \in DOMAIN c \cup {key} |-> IF k = key THEN value ELSE c[k]]

\* get_project_list as callers see it: memoize_by_keyword_arg's wrapper around
\* the function.  Yields the outcome, the listing call sent ("none" when none
\* was) and the cache afterwards.
get_project_list_no_lookup(kwargs, st, resp, c) ==
    LET r == get_project_list_func(kwargs, st, resp)
    IN  [ result |-> r.result, api |-> r.api,
          cache |-> IF r.result.exc = "none" /\ MemArgs(kwargs) # ""
                    THEN Store(c, MemArgs(kwargs), r.result.val) ELSE c ]

get_project_list_cache_errors(kwargs, st, resp, c) ==
    LET r == get_project_list_func(kwargs, st, resp)
    IN  IF MemArgs(kwargs) \in DOMAIN c
        THEN [result |-> RetL(c[MemArgs(kwargs)]), api |-> "none", cache |-> c]
        ELSE [ result |-> r.result, api |-> r.api,
               cache |-> Store(c, MemArgs(kwargs),
                               IF r.result.exc = "none" THEN r.result.val
                               ELSE <<>>) ]

get_project_list(kwargs, st, resp, c) ==
    LET mem_args == MemArgs(kwargs)
    IN  IF mem_args = ""
        THEN LET r == get_project_list_func(kwargs, st, resp)
             IN  [result |-> r.result, api |-> r.api, cache |-> c]
        ELSE IF mem_args \in DOMAIN c
        THEN [result |-> RetL(c[mem_args]), api |-> "none", cache |-> c]
        ELSE LET r == get_project_list_func(kwargs, st, resp)
             IN  [ result |-> r.result, api |-> r.api,
                   cache |-> IF r.result.exc = "none"
                             THEN Store(c, mem_args, r.result.val) ELSE c ]

\* remove_project_cache(token): _PROJECT_CACHE.pop(token, None)
remove_project_cache_noop(c, token) == c

remove_project_cache_clear(c, token) == EmptyCache

remove_project_cache(c, token) == [k \in DOMAIN c \ {token} |-> c[k]]

\* User.authorized_tenants, the property: yields the outcome, the User and the
\* cache afterwards, and the get_project_list call made, if any.
authorized_tenants_catch_client_only(u, st, clk, resp, c) ==
    LET auth == is_authenticated(u, st, clk)
        kwargs == [ has_token |-> TRUE, token |-> u.token[1].id,
                    user_id |-> u.id, is_federated |-> FALSE ]
        w == get_project_list(kwargs, st, resp, c)
        stored == IF u.authorized_tenants = None THEN <<>>
                  ELSE u.authorized_tenants[1]
    IN  IF auth.exc # "none"
        THEN [result |-> RaiseL(auth.exc), user |-> u, cache |-> c, call |-> None]
        ELSE IF auth.val /\ u.authorized_tenants = None
        THEN IF w.result.exc = "none"
             THEN [ result |-> RetL(w.result.val),
                    user |-> [u EXCEPT !.authorized_tenants = Some(w.result.val)],
                    cache |-> w.cache, call |-> Some([kwargs |-> kwargs, w |-> w]) ]
             ELSE IF w.result.exc = "ClientException"
             THEN [ result |-> RetL(<<>>), user |-> u, cache |-> w.cache,
                    call |-> Some([kwargs |-> kwargs, w |-> w]) ]
             ELSE [ result |-> w.result, user |-> u, cache |-> w.cache,
                    call |-> Some([kwargs |-> kwargs, w |-> w]) ]
        ELSE [result |-> RetL(stored), user |-> u, cache |-> c, call |-> None]

authorized_tenants(u, st, clk, resp, c) ==
    LET auth == is_authenticated(u, st, clk)
        \* user_id=self.id, auth_url=endpoint, token=token.id; is_federated is
        \* not passed and reads as False
        kwargs == [ has_token |-> TRUE, token |-> u.token[1].id,
                    user_id |-> u.id, is_federated |-> FALSE ]
        w == get_project_list(kwargs, st, resp, c)
        \* self._authorized_tenants or []
        stored == IF u.authorized_tenants = None THEN <<>>
                  ELSE u.authorized_tenants[1]
    IN  IF auth.exc # "none"
        THEN [result |-> RaiseL(auth.exc), user |-> u, cache |-> c, call |-> None]
        ELSE IF auth.val /\ u.authorized_tenants = None
        THEN IF w.result.exc = "none"
             THEN [ result |-> RetL(w.result.val),
                    user |-> [u EXCEPT !.authorized_tenants = Some(w.result.val)],
                    cache |-> w.cache, call |-> Some([kwargs |-> kwargs, w |-> w]) ]
             ELSE IF w.result.exc \in {"ClientException", "AuthorizationFailure"}
             THEN [ result |-> RetL(<<>>), user |-> u, cache |-> w.cache,
                    call |-> Some([kwargs |-> kwargs, w |-> w]) ]
             ELSE [ result |-> w.result, user |-> u, cache |-> w.cache,
                    call |-> Some([kwargs |-> kwargs, w |-> w]) ]
        ELSE [result |-> RetL(stored), user |-> u, cache |-> c, call |-> None]

\* the authorized_tenants setter
authorized_tenants_set(u, tenant_list) ==
    [u EXCEPT !.authorized_tenants = Some(tenant_list)]

\* f without the key k
Without(f, k) == [x \in DOMAIN f \ {k} |-> f[x]]

\* The history of a get_project_list invocation with keyword arguments kwargs,
\* answered resp by the identity service, with wrapper outcome w.
Fetched(kwargs, resp, w) ==
    /\ fetch' = [ op |-> "get_project_list",
                  has_token |-> kwargs.has_token,
                  token |-> kwargs.token,
                  api |-> w.api,
                  response |-> IF w.api = "none" THEN RaiseL("none") ELSE resp,
                  result |-> w.result,
                  listedBefore |-> IF kwargs.token \in DOMAIN listed
                                   THEN Some(listed[kwargs.token]) ELSE None,
                  removedBefore |-> kwargs.token \in removedSince,
                  cachedAfter |-> IF kwargs.token \in DOMAIN w.cache
                                  THEN Some(w.cache[kwargs.token]) ELSE None ]
    /\ listed' = IF kwargs.has_token /\ w.result.exc = "none"
                 THEN Store(listed, kwargs.token, w.result.val) ELSE listed
    /\ removedSince' = IF kwargs.has_token
                       THEN removedSince \ {kwargs.token} ELSE removedSince

\* get_project_list(**kwargs) called directly, with kwargs among K
CallGetProjectListOf(K) ==
    \E kwargs \in K, resp \in UpstreamResponses :
        LET w == get_project_list(kwargs, settings, resp, cache)
        IN  /\ cache' = w.cache
            /\ Fetched(kwargs, resp, w)
            /\ ret' = [ op |-> "get_project_list" ]
            /\ UNCHANGED <<lookup, procs, upstream, settings, clock, user,
                           request, input, backendLookups>>

\* remove_project_cache(token), with token among T
CallRemoveProjectCacheOf(T) ==
    \E token \in T :
        /\ cache' = remove_project_cache(cache, token)
        /\ listed' = Without(listed, token)
        /\ removedSince' = IF token \in DOMAIN cache
                           THEN removedSince \cup {token} ELSE removedSince
        /\ ret' = [ op |-> "remove_project_cache", token |-> token ]
        /\ UNCHANGED <<lookup, procs, upstream, settings, clock, user, request,
                       input, fetch, backendLookups>>

(***************************************************************************)
(* The project cache under sequential callers (SpecCache).                 *)
(***************************************************************************)
InitCache ==
    /\ settings \in { st \in Settings : /\ st.USE_TZ
                                         /\ st.TOKEN_TIMEOUT_MARGIN = None
                                         /\ st.LOCAL_OFFSET = 0
                                         /\ st.IDENTITY_API_VERSION # Some(2) }
    /\ clock = 0
    /\ user = DefaultUser
    /\ input = None
    /\ Idle

CallGetProjectList == CallGetProjectListOf(Kwargs)

CallRemoveProjectCache == CallRemoveProjectCacheOf(TokenIds)

NextCache ==
    \/ CallGetProjectList
    \/ CallRemoveProjectCache

SpecCache == InitCache /\ [][NextCache]_vars

(***************************************************************************)
(* User.authorized_tenants over the project cache (SpecTenants).           *)
(***************************************************************************)
\* the token of the user of this part: valid at first, expired from time 1 on
TenantsToken ==
    [id |-> "t1", expires |-> Some([wall |-> 1, aware |-> TRUE, off |-> 0])]

\* the calls other holders of the same token make
TenantsKwargs ==
    { [has_token |-> TRUE, token |-> TenantsToken.id, user_id |-> "u1",
       is_federated |-> FALSE] }

InitTenants ==
    /\ settings \in { st \in Settings : /\ st.TOKEN_TIMEOUT_MARGIN = None
                                         /\ st.LOCAL_OFFSET = 0
                                         /\ st.IDENTITY_API_VERSION = Some(3) }
    /\ clock = 0
    /\ \E tok \in {None, Some(TenantsToken)} :
          user = User("u1", tok, <<>>, None, "", "", {})
    /\ input = None
    /\ Idle

\* time passes
TickTenants ==
    /\ clock < MaxCacheTime
    /\ clock' = clock + 1
    /\ UNCHANGED <<lookup, procs, upstream, settings, user, cache, request,
                   input, ret, fetch, listed, removedSince, backendLookups>>

\* the last operation was a read of authorized_tenants whose upstream listing
\* call raised (history)
FailedFetch ==
    /\ ret.op = "authorized_tenants"
    /\ ret.fetched
    /\ fetch.api # "none"
    /\ fetch.response.exc # "none"

\* user.authorized_tenants, read
CallAuthorizedTenants ==
    \E resp \in UpstreamResponses :
        LET a == authorized_tenants(user, settings, clock, resp, cache)
        IN  /\ user' = a.user
            /\ cache' = a.cache
            /\ IF a.call = None
               THEN UNCHANGED <<lookup, procs, upstream, fetch, listed,
                                removedSince>>
               ELSE Fetched(a.call[1].kwargs, resp, a.call[1].w)
            /\ ret' = [ op |-> "authorized_tenants", at |-> clock,
                        storedBefore |-> user.authorized_tenants,
                        afterFailedFetch |-> FailedFetch,
                        fetched |-> a.call # None, result |-> a.result ]
            /\ UNCHANGED <<lookup, procs, upstream, settings, clock, request,
                           input, backendLookups>>

\* user.authorized_tenants = tenant_list
CallSetAuthorizedTenants ==
    \E tenant_list \in ProjectLists :
        /\ user' = authorized_tenants_set(user, tenant_list)
        /\ ret' = [ op |-> "authorized_tenants.setter" ]
        /\ UNCHANGED <<lookup, procs, upstream, settings, clock, cache,
                       request, input, fetch, listed, removedSince,
                       backendLookups>>

CallGetProjectListSameToken == CallGetProjectListOf(TenantsKwargs)

CallRemoveProjectCacheSameToken == CallRemoveProjectCacheOf({TenantsToken.id})

NextTenants ==
    \/ TickTenants
    \/ CallAuthorizedTenants
    \/ CallSetAuthorizedTenants
    \/ CallGetProjectListSameToken
    \/ CallRemoveProjectCacheSameToken

SpecTenants == InitTenants /\ [][NextTenants]_vars

(***************************************************************************)
(* Claims about the project cache (SpecCache).                             *)
(***************************************************************************)
\* l2 holds the projects of l1, in an order in which no name, lower-cased,
\* comes before the one ahead of it
IsPermutationSorted(l1, l2) ==
    /\ Len(l1) = Len(l2)
    /\ \A x \in Range(l1) \cup Range(l2) :
          Cardinality({ i \in DOMAIN l1 : l1[i] = x })
              = Cardinality({ i \in DOMAIN l2 : l2[i] = x })
    /\ \A i \in 1..(Len(l2) - 1) :
          ~StrLess(Lower(l2[i + 1].name), Lower(l2[i].name))

\* C7: after a get_project_list call with token identifier t has returned a
\* list, every later call with the same t, whatever its other arguments,
\* returns that list and sends no listing call to the identity service, as long
\* as remove_project_cache(t) has not been called.
C7_SameTokenServedFromCache ==
    (fetch.op = "get_project_list" /\ fetch.has_token
        /\ fetch.listedBefore # None) =>
        /\ fetch.result = RetL(fetch.listedBefore[1])
        /\ fetch.api = "none"
        /\ fetch.cachedAfter = fetch.listedBefore

\* C7 witness: a call for a token already listed, answered with a list of two
\* projects in case-insensitive name order, by an entry that is still cached.
C7_Witness ==
    /\ fetch.op = "get_project_list"
    /\ fetch.has_token
    /\ fetch.listedBefore # None
    /\ fetch.result = RetL(<<[name |-> s_alpha], [name |-> s_Beta]>>)
    /\ fetch.token \in DOMAIN cache

\* C8: after remove_project_cache(t) for a token t that had a cached list, the
\* next get_project_list call with t sends a fresh listing call and returns and
\* caches its result.
C8_RemovedTokenIsFetchedAgain ==
    (fetch.op = "get_project_list" /\ fetch.has_token /\ fetch.removedBefore) =>
        /\ fetch.api # "none"
        /\ fetch.response.exc = "none" =>
              /\ fetch.result.exc = "none"
              /\ IsPermutationSorted(fetch.response.val, fetch.result.val)
              /\ fetch.cachedAfter = Some(fetch.result.val)

\* C8 witness: the call that follows a removal returns and caches a fresh
\* listing of two projects.
C8_Witness ==
    /\ fetch.op = "get_project_list"
    /\ fetch.removedBefore
    /\ fetch.api # "none"
    /\ fetch.response = RetL(<<[name |-> s_Beta], [name |-> s_alpha]>>)
    /\ fetch.cachedAfter = Some(<<[name |-> s_alpha], [name |-> s_Beta]>>)

(***************************************************************************)
(* Claims about User.authorized_tenants (SpecTenants).                     *)
(***************************************************************************)
\* C9: when the listing call triggered by User.authorized_tenants fails with a
\* ClientException or an AuthorizationFailure, the property does not raise and
\* returns an empty list.
C9_ClientErrorsGiveEmptyList ==
    (ret.op = "authorized_tenants" /\ ret.fetched /\ fetch.api # "none"
        /\ fetch.response.exc \in {"ClientException", "AuthorizationFailure"}) =>
        ret.result = RetL(<<>>)

\* C9 witness: a read whose listing call failed with AuthorizationFailure.
C9_Witness ==
    /\ ret.op = "authorized_tenants"
    /\ ret.fetched
    /\ fetch.api # "none"
    /\ fetch.response.exc = "AuthorizationFailure"
    /\ ret.result = RetL(<<>>)

(***************************************************************************)
(* Request and session wiring (user.py, utils.py).                         *)
(***************************************************************************)
MaxLookups == 2

\* django.contrib.auth.SESSION_KEY, BACKEND_SESSION_KEY
SESSION_KEY == "_auth_user_id"
BACKEND_SESSION_KEY == "_auth_user_backend"

\* set_session_from_user(request, user)
set_session_from_user_no_cache(req, u) ==
    [ req EXCEPT
        !.session = Store(Store(Store(Store(req.session,
                        "token", u.token),
                        "user_id", u.id),
                        "region_endpoint", u.endpoint),
                        "services_region", u.services_region),
        !.user = Some(u) ]

set_session_from_user(req, u) ==
    [ req EXCEPT
        !.session = Store(Store(Store(Store(req.session,
                        "token", u.token),
                        "user_id", u.id),
                        "region_endpoint", u.endpoint),
                        "services_region", u.services_region),
        !.has_cached_user = TRUE,
        !._cached_user = u,
        !.user = Some(u) ]

\* get_user(request); answer is what backend.get_user(user_id) returns.  Yields
\* the user and whether the backend was asked.
get_user_no_except(req, answer) ==
    IF {SESSION_KEY, BACKEND_SESSION_KEY} \subseteq DOMAIN req.session
    THEN [ user |-> IF answer = None THEN AnonymousUser ELSE answer[1],
           looked_up |-> TRUE, exc |-> "none" ]
    ELSE [user |-> AnonymousUser, looked_up |-> FALSE, exc |-> "KeyError"]

get_user(req, answer) ==
    IF SESSION_KEY \notin DOMAIN req.session
    THEN \* KeyError, caught
         [user |-> AnonymousUser, looked_up |-> FALSE, exc |-> "none"]
    ELSE IF BACKEND_SESSION_KEY \notin DOMAIN req.session
    THEN \* KeyError, caught
         [user |-> AnonymousUser, looked_up |-> FALSE, exc |-> "none"]
    ELSE [ user |-> IF answer = None THEN AnonymousUser ELSE answer[1],
           looked_up |-> TRUE, exc |-> "none" ]

\* middleware_get_user(request).  Yields the user returned, the request
\* afterwards, whether get_user was called and whether the backend was asked.
middleware_get_user_uncached(req, answer) ==
    LET g == get_user(req, answer)
    IN  [ user |-> g.user,
          request |-> [req EXCEPT !.has_cached_user = TRUE,
                                  !._cached_user = g.user],
          called_get_user |-> TRUE,
          looked_up |-> g.looked_up ]

middleware_get_user(req, answer) ==
    IF ~req.has_cached_user
    THEN LET g == get_user(req, answer)
         IN  [ user |-> g.user,
               request |-> [req EXCEPT !.has_cached_user = TRUE,
                                       !._cached_user = g.user],
               called_get_user |-> TRUE,
               looked_up |-> g.looked_up ]
    ELSE [ user |-> req._cached_user, request |-> req,
           called_get_user |-> FALSE, looked_up |-> FALSE ]

\* the users that log in
RequestUsers ==
    { User(id, tok, <<>>, None, endpoint, region, {}) :
        id \in UserIds,
        tok \in { None, Some([id |-> "t1", expires |-> None]),
                  Some([id |-> "t2", expires |-> None]) },
        endpoint \in {"http://a/v3", "http://b/v3"},
        region \in {"RegionOne", "RegionTwo"} }

\* what backend.get_user(user_id) can return
BackendAnswers == {None} \cup { Some(u) : u \in RequestUsers }

\* the session keys django.contrib.auth's login leaves, or not
Sessions ==
    { <<>>,
      [k \in {SESSION_KEY} |-> "u1"],
      [k \in {BACKEND_SESSION_KEY} |-> "openstack_auth.backend.KeystoneBackend"],
      [k \in {SESSION_KEY, BACKEND_SESSION_KEY} |->
          IF k = SESSION_KEY THEN "u1"
          ELSE "openstack_auth.backend.KeystoneBackend"] }

InitRequest ==
    /\ settings \in { st \in Settings : /\ st.USE_TZ
                                         /\ st.TOKEN_TIMEOUT_MARGIN = None
                                         /\ st.LOCAL_OFFSET = 0
                                         /\ st.IDENTITY_API_VERSION = Some(3) }
    /\ clock = 0
    /\ user = DefaultUser
    /\ cache = EmptyCache
    /\ \E sess \in Sessions : request = [EmptyRequest EXCEPT !.session = sess]
    /\ input = None
    /\ ret = NoCall
    /\ fetch = NoCall
    /\ listed = <<>>
    /\ removedSince = {}
    /\ backendLookups = 0
    /\ lookup = NoLookup
    /\ procs = <<>>
    /\ upstream = {}

\* set_session_from_user(request, user)
CallSetSessionFromUser ==
    \E u \in RequestUsers :
        /\ request' = set_session_from_user(request, u)
        /\ ret' = [ op |-> "set_session_from_user", user |-> u ]
        /\ lookup' = [lookup EXCEPT !.stored = None]
        /\ UNCHANGED <<procs, upstream, settings, clock, user, cache, input,
                       fetch, listed, removedSince, backendLookups>>

\* middleware_get_user(request)
CallMiddlewareGetUser ==
    \E answer \in BackendAnswers :
        LET m == middleware_get_user(request, answer)
        IN  /\ m.looked_up => backendLookups < MaxLookups
            /\ m.called_get_user => lookup.calls < MaxLookups
            /\ request' = m.request
            /\ backendLookups' = IF m.looked_up THEN backendLookups + 1
                                 ELSE backendLookups
            /\ lookup' = IF m.called_get_user
                         THEN [ calls |-> lookup.calls + 1,
                                stored |-> IF lookup.calls = 0
                                           THEN Some(m.user)
                                           ELSE lookup.stored ]
                         ELSE lookup
            /\ ret' = [ op |-> "middleware_get_user", result |-> m.user,
                        looked_up |-> m.looked_up,
                        called_get_user |-> m.called_get_user,
                        userBefore |-> request.user ]
            /\ UNCHANGED <<procs, upstream, settings, clock, user, cache,
                           input, fetch, listed, removedSince>>

\* get_user(request), as django.contrib.auth.get_user
CallGetUser ==
    \E answer \in BackendAnswers :
        LET g == get_user(request, answer)
        IN  /\ g.looked_up => backendLookups < MaxLookups
            /\ backendLookups' = IF g.looked_up THEN backendLookups + 1
                                 ELSE backendLookups
            /\ ret' = [ op |-> "get_user", result |-> g.user,
                        exc |-> g.exc,
                        looked_up |-> g.looked_up,
                        answer |-> IF g.looked_up THEN answer ELSE None ]
            /\ UNCHANGED <<lookup, procs, upstream, settings, clock, user,
                           cache, request, input, fetch, listed, removedSince>>

\* the next request of the same session: the session is kept, the attributes of
\* the request object are not
NewRequest ==
    /\ request' = [EmptyRequest EXCEPT !.session = request.session]
    /\ backendLookups' = 0
    /\ lookup' = NoLookup
    /\ ret' = [ op |-> "new_request" ]
    /\ UNCHANGED <<procs, upstream, settings, clock, user, cache, input, fetch,
                   listed, removedSince>>

NextRequest ==
    \/ CallSetSessionFromUser
    \/ CallMiddlewareGetUser
    \/ CallGetUser
    \/ NewRequest

SpecRequest == InitRequest /\ [][NextRequest]_vars

(***************************************************************************)
(* Claims about the request and session wiring (SpecRequest).              *)
(***************************************************************************)
\* C10: set_session_from_user(request, user) stores user.token, user.id,
\* user.endpoint and user.services_region under the session keys 'token',
\* 'user_id', 'region_endpoint' and 'services_region' and sets the request's
\* cached user to that user, so that a later middleware_get_user(request) on the
\* same request returns exactly that user without a backend lookup.
C10_SessionAndCachedUserSet ==
    /\ ret.op = "set_session_from_user" =>
          /\ {"token", "user_id", "region_endpoint", "services_region"}
                \subseteq DOMAIN request.session
          /\ request.session["token"] = ret.user.token
          /\ request.session["user_id"] = ret.user.id
          /\ request.session["region_endpoint"] = ret.user.endpoint
          /\ request.session["services_region"] = ret.user.services_region
          /\ request.has_cached_user
          /\ request._cached_user = ret.user
    /\ (ret.op = "middleware_get_user" /\ ret.userBefore # None) =>
          /\ ret.result = ret.userBefore[1]
          /\ ~ret.looked_up

\* C10 witness: middleware_get_user returns the user given to
\* set_session_from_user on a request whose session would otherwise have sent
\* the lookup to the backend.
C10_Witness ==
    /\ ret.op = "middleware_get_user"
    /\ ret.userBefore # None
    /\ ret.result = ret.userBefore[1]
    /\ ret.result.id = "u2"
    /\ {SESSION_KEY, BACKEND_SESSION_KEY} \subseteq DOMAIN request.session
    /\ request.session["user_id"] = "u2"

\* C11: within one request, however many times middleware_get_user is called,
\* it calls get_user at most once; the first call stores its result on the
\* request, and every later call returns the user stored on the request, which
\* is that result for as long as set_session_from_user has not replaced it.
C11_LookupAtMostOncePerRequest ==
    /\ lookup.calls <= 1
    /\ ret.op = "middleware_get_user" =>
          /\ request.has_cached_user
          /\ ret.result = request._cached_user
          /\ lookup.stored # None => ret.result = lookup.stored[1]

\* C11 witness: a later middleware_get_user call on a request whose first call
\* asked the backend and got a user; it returns that user without get_user.
C11_Witness ==
    /\ ret.op = "middleware_get_user"
    /\ ~ret.called_get_user
    /\ lookup.calls = 1
    /\ backendLookups = 1
    /\ lookup.stored # None
    /\ ret.result = lookup.stored[1]
    /\ ret.result.class = "User"

(***************************************************************************)
(* The project and tenant attributes of a User (user.py).                  *)
(***************************************************************************)
\* values of the project_id / tenant_id / project_name / tenant_name keyword
\* arguments: None, the empty string, or a non-empty string
ProjectValues == { None, Some(""), Some("p1"), Some("p2") }

\* Python's "a or b"
py_or(a, b) == IF a = None \/ a = Some("") THEN b ELSE a

\* User(tenant_id=..., tenant_name=..., project_id=..., project_name=...)
User_init_project(tenant_id, tenant_name, project_id, project_name) ==
    LET pid == py_or(project_id, tenant_id)
        pname == py_or(project_name, tenant_name)
    IN  [ DefaultUser EXCEPT !.project_id = pid,
                             !.project_name = pname,
                             !.tenant_id = pid,
                             !.tenant_name = pname ]

InitUser ==
    /\ settings \in { st \in Settings : /\ st.USE_TZ
                                         /\ st.TOKEN_TIMEOUT_MARGIN = None
                                         /\ st.LOCAL_OFFSET = 0
                                         /\ st.IDENTITY_API_VERSION = Some(3) }
    /\ clock = 0
    /\ \E tid \in ProjectValues, tname \in ProjectValues,
          pid \in ProjectValues, pname \in ProjectValues :
          /\ user = User_init_project(tid, tname, pid, pname)
          /\ ret = [ op |-> "User", tenant_id |-> tid, tenant_name |-> tname,
                     project_id |-> pid, project_name |-> pname ]
    /\ input = None
    /\ cache = EmptyCache
    /\ request = EmptyRequest
    /\ fetch = NoCall
    /\ listed = <<>>
    /\ removedSince = {}
    /\ backendLookups = 0
    /\ lookup = NoLookup
    /\ procs = <<>>
    /\ upstream = {}

\* user.project_id = v: a plain attribute of the instance
SetProjectId ==
    \E v \in ProjectValues :
        /\ user' = [user EXCEPT !.project_id = v]
        /\ ret' = [ op |-> "set_project_id", value |-> v ]
        /\ UNCHANGED <<settings, clock, cache, request, input, fetch, listed,
                       removedSince, backendLookups, lookup, procs, upstream>>

\* user.tenant_id = v
SetTenantId ==
    \E v \in ProjectValues :
        /\ user' = [user EXCEPT !.tenant_id = v]
        /\ ret' = [ op |-> "set_tenant_id", value |-> v ]
        /\ UNCHANGED <<settings, clock, cache, request, input, fetch, listed,
                       removedSince, backendLookups, lookup, procs, upstream>>

\* user.project_name = v
SetProjectName ==
    \E v \in ProjectValues :
        /\ user' = [user EXCEPT !.project_name = v]
        /\ ret' = [ op |-> "set_project_name", value |-> v ]
        /\ UNCHANGED <<settings, clock, cache, request, input, fetch, listed,
                       removedSince, backendLookups, lookup, procs, upstream>>

\* user.tenant_name = v
SetTenantName ==
    \E v \in ProjectValues :
        /\ user' = [user EXCEPT !.tenant_name = v]
        /\ ret' = [ op |-> "set_tenant_name", value |-> v ]
        /\ UNCHANGED <<settings, clock, cache, request, input, fetch, listed,
                       removedSince, backendLookups, lookup, procs, upstream>>

NextUser ==
    \/ SetProjectId
    \/ SetTenantId
    \/ SetProjectName
    \/ SetTenantName

SpecUser == InitUser /\ [][NextUser]_vars

(***************************************************************************)
(* Claims about the project and tenant attributes (SpecUser).              *)
(***************************************************************************)
\* C12: a User's project_id and tenant_id always hold the same value, and
\* likewise project_name and tenant_name: after construction, whichever keyword
\* arguments were supplied, and after any later update of either attribute.
C12_ProjectTenantInSync ==
    /\ user.project_id = user.tenant_id
    /\ user.project_name = user.tenant_name

\* The construction half of C12: right after User(...) both pairs agree, and
\* hold the project_* argument when it is truthy, else the tenant_* argument.
ProjectTenantInSyncAfterInit ==
    ret.op = "User" =>
        /\ user.project_id = user.tenant_id
        /\ user.project_name = user.tenant_name
        /\ user.project_id = py_or(ret.project_id, ret.tenant_id)
        /\ user.project_name = py_or(ret.project_name, ret.tenant_name)

(***************************************************************************)
(* URL helpers (utils.py).  A text is a sequence of pieces.                *)
(***************************************************************************)
MaxUrlLen == 4

\* the WEBSSO_IDP_MAPPING settings: identifier -> (idp_id, protocol_id)
IdpPair(idp, protocol) == [idp_id |-> Some(idp), protocol_id |-> protocol]

IdpMappings ==
    { <<>>,
      [k \in {"acme_oidc"} |-> IdpPair("acme", "oidc")],
      [k \in {"acme_oidc", "acme_saml2"} |->
          IF k = "acme_oidc" THEN IdpPair("acme", "oidc")
          ELSE IdpPair("acme", "saml2")],
      [k \in {"saml2"} |-> IdpPair("okta", "saml2")] }

WebssoChoices == {"acme_oidc", "acme_saml2", "saml2", "oidc"}

AuthUrls == { <<"https://idp/v3">>, <<"http://x/v2.0">> }

\* the WEBROOT setting
Webroots == { <<>>, <<"/">>, <<"/dashboard">>, <<"/dashboard", "/">> }

\* build_absolute_uri(request, relative_url), relative_url beginning with "/";
\* request.build_absolute_uri prefixes the scheme and host of the request
build_absolute_uri(webroot, relative_url) ==
    LET w == IF webroot # <<>> /\ webroot[Len(webroot)] = "/"
             THEN SubSeq(webroot, 1, Len(webroot) - 1)
             ELSE webroot
    IN  <<"http://horizon">> \o w \o relative_url

\* idp_mapping.get(websso_auth, (None, websso_auth))
idp_mapping_get(idp_mapping, websso_auth) ==
    IF websso_auth \in DOMAIN idp_mapping
    THEN idp_mapping[websso_auth]
    ELSE [idp_id |-> None, protocol_id |-> websso_auth]

\* get_websso_url(request, auth_url, websso_auth)
get_websso_url_protocol_only(idp_mapping, webroot, auth_url, websso_auth) ==
    auth_url \o <<"/auth/OS-FEDERATION/websso/", websso_auth, "?origin=">>
             \o build_absolute_uri(webroot, <<"/auth/websso/">>)

get_websso_url(idp_mapping, webroot, auth_url, websso_auth) ==
    LET origin == build_absolute_uri(webroot, <<"/auth/websso/">>)
        found == idp_mapping_get(idp_mapping, websso_auth)
        idp_id == found.idp_id
        protocol_id == found.protocol_id
    IN  IF idp_id # None /\ idp_id # Some("")
        THEN auth_url \o <<"/auth/OS-FEDERATION/identity_providers/",
                           idp_id[1], "/protocols/", protocol_id,
                           "/websso?origin=">> \o origin
        ELSE auth_url \o <<"/auth/OS-FEDERATION/websso/", protocol_id,
                           "?origin=">> \o origin

\* An auth_url is scheme "://" netloc rest.  In rest "/v2.0", "?" and "#" are
\* pieces of their own and no other piece contains them; rest is empty or
\* begins with "/", "?" or "#", where the netloc ends.
UrlPieces == {"/v2.0", "/v3", "/p", "k", "?", "#"}

Url(scheme, netloc, rest) == [scheme |-> scheme, netloc |-> netloc, rest |-> rest]

Urls ==
    { Url(sn[1], sn[2], rest) :
        sn \in { <<"http", "x">>, <<"https", "y:5000">> },
        rest \in { r \in SeqsUpTo(UrlPieces, MaxUrlLen) :
                      r # <<>> => r[1] # "k" } }

\* index of the first piece of text that is in S, 0 when there is none
FirstIndex(text, S) ==
    IF \E i \in DOMAIN text : text[i] \in S
    THEN CHOOSE i \in DOMAIN text :
            /\ text[i] \in S
            /\ \A j \in 1..(i - 1) : text[j] \notin S
    ELSE 0

\* urlparse.urlsplit(url)
urlsplit(url) ==
    LET h == FirstIndex(url.rest, {"#"})
        front == IF h = 0 THEN url.rest ELSE SubSeq(url.rest, 1, h - 1)
        fragment == IF h = 0 THEN <<>>
                    ELSE SubSeq(url.rest, h + 1, Len(url.rest))
        q == FirstIndex(front, {"?"})
        path == IF q = 0 THEN front ELSE SubSeq(front, 1, q - 1)
        query == IF q = 0 THEN <<>> ELSE SubSeq(front, q + 1, Len(front))
    IN  [ scheme |-> url.scheme, netloc |-> url.netloc, path |-> path,
          query |-> query, fragment |-> fragment ]

\* urlparse.urlunsplit((scheme, netloc, path, query, fragment)): an empty query
\* or fragment is written without its "?" or "#"
urlunsplit(parts) ==
    Url(parts.scheme, parts.netloc,
        parts.path
          \o (IF parts.query = <<>> THEN <<>> ELSE <<"?">> \o parts.query)
          \o (IF parts.fragment = <<>> THEN <<>>
              ELSE <<"#">> \o parts.fragment))

\* has_in_url_path(url, sub)
has_in_url_path(url, sub) == FirstIndex(urlsplit(url).path, {sub}) # 0

\* path.replace(old, new, 1)
replace_first(path, old, new) ==
    LET i == FirstIndex(path, {old})
    IN  IF i = 0 THEN path ELSE [path EXCEPT ![i] = new]

\* path.replace(old, new)
replace_all(path, old, new) ==
    [i \in DOMAIN path |-> IF path[i] = old THEN new ELSE path[i]]

\* url_path_replace(url, old, new, count), count either None or Some(1)
url_path_replace(url, old, new, count) ==
    LET parts == urlsplit(url)
    IN  urlunsplit([parts EXCEPT !.path =
                       IF count = None THEN replace_all(parts.path, old, new)
                       ELSE replace_first(parts.path, old, new)])

\* fix_auth_url_version(auth_url)
fix_auth_url_version_replace_all(auth_url, st) ==
    IF get_keystone_version(st) >= 3 /\ has_in_url_path(auth_url, "/v2.0")
    THEN url_path_replace(auth_url, "/v2.0", "/v3", None)
    ELSE auth_url

fix_auth_url_version(auth_url, st) ==
    IF get_keystone_version(st) >= 3
    THEN IF has_in_url_path(auth_url, "/v2.0")
         THEN url_path_replace(auth_url, "/v2.0", "/v3", Some(1))
         ELSE auth_url
    ELSE auth_url

\* The settings and arguments of one get_websso_url call, or the auth_url of
\* one fix_auth_url_version call, are drawn.
InitUrl ==
    /\ settings \in { st \in Settings : /\ st.USE_TZ
                                         /\ st.TOKEN_TIMEOUT_MARGIN = None
                                         /\ st.LOCAL_OFFSET = 0 }
    /\ clock = 0
    /\ user = DefaultUser
    /\ \/ \E m \in IdpMappings, w \in Webroots, a \in AuthUrls,
             c \in WebssoChoices :
             input = [ kind |-> "websso", WEBSSO_IDP_MAPPING |-> m,
                       WEBROOT |-> w, auth_url |-> a, websso_auth |-> c ]
       \/ \E u \in Urls : input = [ kind |-> "auth_url", auth_url |-> u ]
    /\ Idle

CallGetWebssoUrl ==
    /\ input.kind = "websso"
    /\ ret' = [ op |-> "get_websso_url",
                result |-> get_websso_url(input.WEBSSO_IDP_MAPPING,
                                          input.WEBROOT, input.auth_url,
                                          input.websso_auth) ]
    /\ UNCHANGED <<settings, clock, user, cache, request, input, fetch, listed,
                   removedSince, backendLookups, lookup, procs, upstream>>

CallFixAuthUrlVersion ==
    /\ input.kind = "auth_url"
    /\ ret' = [ op |-> "fix_auth_url_version",
                result |-> fix_auth_url_version(input.auth_url, settings) ]
    /\ UNCHANGED <<settings, clock, user, cache, request, input, fetch, listed,
                   removedSince, backendLookups, lookup, procs, upstream>>

NextUrl ==
    \/ CallGetWebssoUrl
    \/ CallFixAuthUrlVersion

SpecUrl == InitUrl /\ [][NextUrl]_vars

(***************************************************************************)
(* Claims about the URL helpers (SpecUrl).                                 *)
(***************************************************************************)
\* the origin of the call drawn: build_absolute_uri(request, '/auth/websso/')
OriginOf(in) == build_absolute_uri(in.WEBROOT, <<"/auth/websso/">>)

\* C13: get_websso_url: if the selected identifier is found in
\* WEBSSO_IDP_MAPPING with value (idp, protocol), the result is
\* '<auth_url>/auth/OS-FEDERATION/identity_providers/<idp>/protocols/<protocol>/websso?origin=<origin>';
\* if it is not found, the identifier itself is the protocol and the result is
\* '<auth_url>/auth/OS-FEDERATION/websso/<identifier>?origin=<origin>'.
C13_WebssoUrlByMapping ==
    ret.op = "get_websso_url" =>
        IF input.websso_auth \in DOMAIN input.WEBSSO_IDP_MAPPING
        THEN LET v == input.WEBSSO_IDP_MAPPING[input.websso_auth]
             IN  ret.result =
                    input.auth_url
                    \o <<"/auth/OS-FEDERATION/identity_providers/", v.idp_id[1],
                         "/protocols/", v.protocol_id, "/websso?origin=">>
                    \o OriginOf(input)
        ELSE ret.result =
                input.auth_url
                \o <<"/auth/OS-FEDERATION/websso/", input.websso_auth,
                     "?origin=">>
                \o OriginOf(input)

\* C13 witness: the spec's example, 'acme_oidc' mapped to ('acme', 'oidc') with
\* auth_url https://idp/v3.
C13_Witness ==
    /\ ret.op = "get_websso_url"
    /\ input.websso_auth = "acme_oidc"
    /\ "acme_oidc" \in DOMAIN input.WEBSSO_IDP_MAPPING
    /\ input.WEBROOT = <<"/dashboard", "/">>
    /\ ret.result = <<"https://idp/v3",
                      "/auth/OS-FEDERATION/identity_providers/", "acme",
                      "/protocols/", "oidc", "/websso?origin=",
                      "http://horizon", "/dashboard", "/auth/websso/">>

\* the first "/v2.0" of the path replaced by "/v3"
FirstV2Replaced(path, out) ==
    \E i \in DOMAIN path :
        /\ path[i] = "/v2.0"
        /\ \A j \in 1..(i - 1) : path[j] # "/v2.0"
        /\ out = [path EXCEPT ![i] = "/v3"]

\* C14: fix_auth_url_version returns its input unchanged when the configured
\* identity API version is below 3 or the URL path contains no '/v2.0';
\* otherwise it returns the URL with only the first '/v2.0' of the path replaced
\* by '/v3' and scheme, host, query and fragment unchanged; 'http://x/v2.0'
\* yields 'http://x/v3'.
C14_FixAuthUrlVersion ==
    ret.op = "fix_auth_url_version" =>
        LET in == urlsplit(input.auth_url)
            out == urlsplit(ret.result)
        IN  /\ IF get_keystone_version(settings) < 3
                  \/ \A i \in DOMAIN in.path : in.path[i] # "/v2.0"
               THEN ret.result = input.auth_url
               ELSE /\ FirstV2Replaced(in.path, out.path)
                    /\ out.scheme = in.scheme
                    /\ out.netloc = in.netloc
                    /\ out.query = in.query
                    /\ out.fragment = in.fragment
            /\ (/\ get_keystone_version(settings) >= 3
                /\ input.auth_url = Url("http", "x", <<"/v2.0">>))
               => ret.result = Url("http", "x", <<"/v3">>)

\* C14 witness: version 3, a path with two '/v2.0' and one more in the query;
\* only the first is rewritten.
C14_Witness ==
    /\ ret.op = "fix_auth_url_version"
    /\ get_keystone_version(settings) >= 3
    /\ input.auth_url = Url("http", "x", <<"/v2.0", "/v2.0", "?", "/v2.0">>)
    /\ ret.result = Url("http", "x", <<"/v3", "/v2.0", "?", "/v2.0">>)

(***************************************************************************)
(* The default services region (utils.py, user.py).                        *)
(***************************************************************************)
MaxServices == 2
MaxEndpoints == 2

RegionNames == {"RegionOne", "RegionTwo"}

\* an endpoint of the catalog: keystone v3 gives 'region_id' and 'region',
\* keystone v2 'region' alone
Endpoint(r, v3) ==
    [ region_id |-> IF v3 THEN Some(r) ELSE None, region |-> Some(r) ]

ServiceTypes == {"identity", "compute"}

Catalogs(v3) ==
    SeqsUpTo([ type : ServiceTypes,
               endpoints : SeqsUpTo({ Endpoint(r, v3) : r \in RegionNames },
                                    MaxEndpoints) ],
             MaxServices)

\* the request argument: None, or the value of its 'services_region' cookie
\* (None when the cookie is not set)
RegionRequests ==
    { None, Some(None) }
      \cup { Some(Some(c)) : c \in RegionNames \cup {"RegionGone"} }

\* get_endpoint_region(endpoint)
get_endpoint_region(endpoint) ==
    IF endpoint.region_id # None /\ endpoint.region_id # Some("")
    THEN endpoint.region_id
    ELSE endpoint.region

\* [get_endpoint_region(endpoint) for endpoint in service['endpoints']]
RECURSIVE endpoint_regions(_)
endpoint_regions(endpoints) ==
    IF endpoints = <<>> THEN <<>>
    ELSE <<get_endpoint_region(Head(endpoints))>>
            \o endpoint_regions(Tail(endpoints))

\* [get_endpoint_region(endpoint) for service in service_catalog
\*  for endpoint in service.get('endpoints', []) if <service is kept>]
RECURSIVE catalog_regions(_, _)
catalog_regions(service_catalog, with_identity) ==
    IF service_catalog = <<>> THEN <<>>
    ELSE LET service == Head(service_catalog)
         IN  (IF with_identity \/ service.type # "identity"
              THEN endpoint_regions(service.endpoints) ELSE <<>>)
                \o catalog_regions(Tail(service_catalog), with_identity)

\* default_services_region(service_catalog, request); the result is None or
\* Some(region)
default_services_region_ignore_cookie(service_catalog, req) ==
    LET regions == catalog_regions(service_catalog, TRUE)
    IN  IF regions = <<>> THEN None ELSE regions[1]

default_services_region(service_catalog, req) ==
    IF service_catalog # <<>>
    THEN LET non_identity == catalog_regions(service_catalog, FALSE)
             available_regions ==
                 IF non_identity = <<>>
                 THEN catalog_regions(service_catalog, TRUE)
                 ELSE non_identity
         IN  IF available_regions = <<>> THEN None
             ELSE LET selected_region ==
                          IF req # None
                          THEN IF req[1] # None THEN req[1]
                               ELSE available_regions[1]
                          ELSE None
                  IN  IF \E i \in DOMAIN available_regions :
                             available_regions[i] = selected_region
                      THEN selected_region
                      ELSE available_regions[1]
    ELSE None

\* User.default_services_region()
RECURSIVE User_default_services_region(_)
User_default_services_region(service_catalog) ==
    IF service_catalog = <<>> THEN None
    ELSE LET service == Head(service_catalog)
         IN  IF service.type = "identity" \/ service.endpoints = <<>>
             THEN User_default_services_region(Tail(service_catalog))
             ELSE service.endpoints[1].region

InitRegion ==
    /\ settings \in { st \in Settings : /\ st.USE_TZ
                                         /\ st.TOKEN_TIMEOUT_MARGIN = None
                                         /\ st.LOCAL_OFFSET = 0
                                         /\ st.IDENTITY_API_VERSION # None }
    /\ clock = 0
    /\ user = DefaultUser
    /\ \E cat \in Catalogs(get_keystone_version(settings) >= 3),
          req \in RegionRequests :
          input = [ kind |-> "catalog", service_catalog |-> cat,
                    request |-> req ]
    /\ Idle

CallDefaultServicesRegion ==
    /\ ret' = [ op |-> "default_services_region",
                result |-> default_services_region(input.service_catalog,
                                                   input.request) ]
    /\ UNCHANGED <<settings, clock, user, cache, request, input, fetch, listed,
                   removedSince, backendLookups, lookup, procs, upstream>>

CallUserDefaultServicesRegion ==
    /\ ret' = [ op |-> "User.default_services_region",
                result |->
                    User_default_services_region(input.service_catalog) ]
    /\ UNCHANGED <<settings, clock, user, cache, request, input, fetch, listed,
                   removedSince, backendLookups, lookup, procs, upstream>>

NextRegion ==
    \/ CallDefaultServicesRegion
    \/ CallUserDefaultServicesRegion

SpecRegion == InitRegion /\ [][NextRegion]_vars

(***************************************************************************)
(* Claims about the default services region (SpecRegion).                  *)
(***************************************************************************)
\* the regions of the endpoints of the non-identity services of the catalog
NonIdentityRegions(cat) ==
    UNION { { get_endpoint_region(cat[i].endpoints[k]) :
                k \in DOMAIN cat[i].endpoints } :
            i \in { j \in DOMAIN cat : cat[j].type # "identity" } }

\* the regions of the endpoints of all services of the catalog
AllRegions(cat) ==
    UNION { { get_endpoint_region(cat[i].endpoints[k]) :
                k \in DOMAIN cat[i].endpoints } : i \in DOMAIN cat }

\* r is the region of the first endpoint of the first non-identity service
\* that has one
IsFirstNonIdentityRegion(cat, r) ==
    \E i \in DOMAIN cat :
        /\ cat[i].type # "identity"
        /\ cat[i].endpoints # <<>>
        /\ \A j \in 1..(i - 1) :
              cat[j].type = "identity" \/ cat[j].endpoints = <<>>
        /\ r = get_endpoint_region(cat[i].endpoints[1])

\* C15: default_services_region(service_catalog, request) returns the region
\* of the first endpoint of the first non-identity service in catalog order,
\* unless the request carries a 'services_region' cookie whose value is among
\* the available regions, in which case that value is returned; a cookie value
\* not among the available regions is ignored; the result is always None or
\* one of the regions present in the catalog.  User.default_services_region()
\* returns the first non-identity region, or None when there is none.
C15_DefaultServicesRegion ==
    LET cat == input.service_catalog
        req == input.request
        cookie == IF req = None THEN None ELSE req[1]
    IN  /\ ret.op = "default_services_region" =>
              /\ NonIdentityRegions(cat) # {} =>
                    IF cookie # None /\ cookie \in NonIdentityRegions(cat)
                    THEN ret.result = cookie
                    ELSE IsFirstNonIdentityRegion(cat, ret.result)
              /\ ret.result \in {None} \cup AllRegions(cat)
        /\ ret.op = "User.default_services_region" =>
              IF NonIdentityRegions(cat) # {}
              THEN IsFirstNonIdentityRegion(cat, ret.result)
              ELSE ret.result = None

\* C15 witness: the cookie names the second region of a catalog that begins
\* with the identity service; the cookie's region is returned.
C15_Witness ==
    /\ ret.op = "default_services_region"
    /\ Len(input.service_catalog) = 2
    /\ input.service_catalog[1].type = "identity"
    /\ input.service_catalog[1].endpoints # <<>>
    /\ input.service_catalog[2].type = "compute"
    /\ endpoint_regions(input.service_catalog[2].endpoints)
          = <<Some("RegionOne"), Some("RegionTwo")>>
    /\ input.request = Some(Some("RegionTwo"))
    /\ ret.result = Some("RegionTwo")

\* an unavailable cookie value is ignored
C15_WitnessCookieIgnored ==
    /\ ret.op = "default_services_region"
    /\ input.request = Some(Some("RegionGone"))
    /\ NonIdentityRegions(input.service_catalog) = {Some("RegionTwo")}
    /\ ret.result = Some("RegionTwo")

(***************************************************************************)
(* Concurrent callers of the project cache (utils.py).  The callers share  *)
(* _PROJECT_CACHE without a lock; each dict operation (in, [], item        *)
(* assignment, pop) is one step, and the callers interleave between them.  *)
(***************************************************************************)
Procs == {"p1", "p2"}

\* a caller outside the wrapper; outcome tells how its last call ended
IdleProc(outcome) ==
    [pc |-> "idle", token |-> "", result |-> <<>>, outcome |-> outcome]

\* the keyword arguments of the concurrent get_project_list calls
ProcKwargs(t) ==
    [has_token |-> TRUE, token |-> t, user_id |-> "u1", is_federated |-> FALSE]

InitConcurrent ==
    /\ settings \in { st \in Settings : /\ st.USE_TZ
                                         /\ st.TOKEN_TIMEOUT_MARGIN = None
                                         /\ st.LOCAL_OFFSET = 0
                                         /\ st.IDENTITY_API_VERSION = Some(3) }
    /\ clock = 0
    /\ user = DefaultUser
    /\ input = None
    /\ cache = EmptyCache
    /\ request = EmptyRequest
    /\ ret = NoCall
    /\ fetch = NoCall
    /\ listed = <<>>
    /\ removedSince = {}
    /\ backendLookups = 0
    /\ lookup = NoLookup
    /\ procs = [p \in Procs |-> IdleProc("none")]
    /\ upstream = {}

\* wrapper, utils.py:133-137: mem_args is built and looked for in the cache
WrapperTest(p) ==
    \E t \in TokenIds :
        /\ procs[p].pc = "idle"
        /\ procs' = [procs EXCEPT ![p] =
              [ pc |-> IF MemArgs(ProcKwargs(t)) \in DOMAIN cache
                       THEN "hit" ELSE "miss",
                token |-> t, result |-> <<>>, outcome |-> "none" ]]
        /\ UNCHANGED <<settings, clock, user, cache, request, input, ret,
                       fetch, listed, removedSince, backendLookups, lookup,
                       upstream>>

\* wrapper, utils.py:138: return cache[mem_args]; KeyError when the entry was
\* removed since the test
WrapperReturnCached(p) ==
    /\ procs[p].pc = "hit"
    /\ procs' = [procs EXCEPT ![p] =
          IdleProc(IF procs[p].token \in DOMAIN cache THEN "returned"
                   ELSE "KeyError")]
    /\ UNCHANGED <<settings, clock, user, cache, request, input, ret, fetch,
                   listed, removedSince, backendLookups, lookup, upstream>>

\* wrapper, utils.py:139: result = func(*args, **kwargs), the upstream call
WrapperCallFunc(p) ==
    \E resp \in UpstreamResponses :
        LET r == get_project_list_func(ProcKwargs(procs[p].token), settings,
                                       resp).result
        IN  /\ procs[p].pc = "miss"
            /\ procs' = [procs EXCEPT ![p] =
                  IF r.exc = "none"
                  THEN [procs[p] EXCEPT !.pc = "store", !.result = r.val]
                  ELSE IdleProc("raised")]
            /\ upstream' = IF r.exc = "none"
                           THEN upstream \cup
                                  {[token |-> procs[p].token, list |-> r.val]}
                           ELSE upstream
            /\ UNCHANGED <<settings, clock, user, cache, request, input, ret,
                           fetch, listed, removedSince, backendLookups,
                           lookup>>

\* wrapper, utils.py:140-141: cache[mem_args] = result; return result
WrapperStore(p) ==
    /\ procs[p].pc = "store"
    /\ cache' = Store(cache, procs[p].token, procs[p].result)
    /\ procs' = [procs EXCEPT ![p] =
          IdleProc(IF /\ procs[p].token \in DOMAIN cache
                      /\ cache[procs[p].token] # procs[p].result
                   THEN "overwrote" ELSE "returned")]
    /\ UNCHANGED <<settings, clock, user, request, input, ret, fetch, listed,
                   removedSince, backendLookups, lookup, upstream>>

\* remove_project_cache(token)
ProcRemoveProjectCache(p) ==
    \E t \in TokenIds :
        /\ procs[p].pc = "idle"
        /\ cache' = remove_project_cache(cache, t)
        /\ procs' = [procs EXCEPT ![p] = IdleProc("removed")]
        /\ UNCHANGED <<settings, clock, user, request, input, ret, fetch,
                       listed, removedSince, backendLookups, lookup, upstream>>

NextConcurrent ==
    \E p \in Procs :
        \/ WrapperTest(p)
        \/ WrapperReturnCached(p)
        \/ WrapperCallFunc(p)
        \/ WrapperStore(p)
        \/ ProcRemoveProjectCache(p)

SpecConcurrent == InitConcurrent /\ [][NextConcurrent]_vars

(***************************************************************************)
(* Claims about the concurrent callers (SpecConcurrent).                   *)
(***************************************************************************)
\* C16: under concurrent callers that share the project cache without locking,
\* the entry of a token is in every reachable state either absent or exactly
\* one complete list that a single upstream call for that token returned;
\* racing writers can overwrite each other's entry, but no entry is partial or
\* merged.
C16_EntryIsOneUpstreamList ==
    \A t \in DOMAIN cache : [token |-> t, list |-> cache[t]] \in upstream

\* C16 witness: a lost update.  Two callers missed on the same token and both
\* called upstream; the second store replaced the list the first had stored.
C16_Witness ==
    \E p \in Procs :
        /\ procs[p].outcome = "overwrote"
        /\ "t1" \in DOMAIN cache
        /\ cache["t1"] # <<>>
        /\ Cardinality({ u \in upstream : u.token = "t1" }) >= 2

(***************************************************************************)
(* More claims about the project cache under sequential callers            *)
(* (SpecCache).                                                            *)
(***************************************************************************)
\* C17: an entry of the project cache for token t, once stored, stays in the
\* cache with the same list until remove_project_cache(t) is called: no
\* get_project_list call, for t or for another token, and no
\* remove_project_cache(u) with u # t removes or replaces it; and
\* remove_project_cache of a token that has no entry leaves the cache as it is.
C17_EntryKeptUntilRemoved ==
    [][ /\ \A t \in DOMAIN cache :
              ~(ret'.op = "remove_project_cache" /\ ret'.token = t)
                 => /\ t \in DOMAIN cache'
                    /\ cache'[t] = cache[t]
        /\ (/\ ret'.op = "remove_project_cache"
            /\ ret'.token \notin DOMAIN cache) => cache' = cache ]_vars

\* C17 witness: the entry of t1 is still there after a get_project_list call
\* that stored a list for t2 and a remove_project_cache(t2).
C17_Witness ==
    /\ "t1" \in DOMAIN cache
    /\ "t2" \notin DOMAIN cache
    /\ ret.op = "remove_project_cache"
    /\ ret.token = "t2"
    /\ fetch.op = "get_project_list"
    /\ fetch.token = "t2"
    /\ fetch.cachedAfter # None

(***************************************************************************)
(* More claims about the request and session wiring (SpecRequest).         *)
(***************************************************************************)
\* C18: get_user(request) returns an anonymous user, and never raises a
\* KeyError, whenever the session lacks the user-id key or the backend key, or
\* the backend's get_user returns nothing for the stored user id; it returns a
\* non-anonymous user only when both session keys are present and the backend
\* returns a user.
C18_GetUserFallsBackToAnonymous ==
    ret.op = "get_user" =>
        LET both == {SESSION_KEY, BACKEND_SESSION_KEY}
                       \subseteq DOMAIN request.session
        IN  /\ ret.exc # "KeyError"
            /\ (~both \/ ret.answer = None) =>
                  /\ ret.exc = "none"
                  /\ ret.result = AnonymousUser
            /\ ret.result.class # "AnonymousUser" =>
                  /\ both
                  /\ ret.looked_up
                  /\ ret.answer # None
                  /\ ret.result = ret.answer[1]

\* C18 witness: the session has the user-id key but not the backend key;
\* get_user returns the anonymous user without asking the backend.
C18_Witness ==
    /\ ret.op = "get_user"
    /\ SESSION_KEY \in DOMAIN request.session
    /\ BACKEND_SESSION_KEY \notin DOMAIN request.session
    /\ ret.exc = "none"
    /\ ~ret.looked_up
    /\ ret.result = AnonymousUser

\* the backend has no user for the id
C18_WitnessBackendReturnsNone ==
    /\ ret.op = "get_user"
    /\ ret.looked_up
    /\ ret.answer = None
    /\ ret.result = AnonymousUser

(***************************************************************************)
(* More claims about User.authorized_tenants (SpecTenants).                *)
(***************************************************************************)
\* C19: User.authorized_tenants makes a project-list fetch only when the user
\* is authenticated and no list is stored on the User; an unauthenticated user
\* never triggers a fetch, and once a list is stored, by a fetch or by the
\* setter, every later read returns that stored list without any fetch.
C19_FetchOnlyWhenAuthenticatedAndUnset ==
    ret.op = "authorized_tenants" =>
        /\ ret.fetched => /\ ret.storedBefore = None
                          /\ TokenCheckHolds(ret.at)
        /\ ret.storedBefore # None =>
              /\ ~ret.fetched
              /\ ret.result = RetL(ret.storedBefore[1])

\* The part of C19 the code keeps: a fetch is made only by an authenticated
\* user without a stored list, and whenever the token check can be made (or
\* there is no token) a stored list is returned without a fetch.
TenantsReadWhenComparable ==
    ret.op = "authorized_tenants" =>
        /\ ret.fetched => /\ ret.storedBefore = None
                          /\ TokenCheckHolds(ret.at)
        /\ (/\ ret.storedBefore # None
            /\ \/ user.token = None
               \/ user.token[1].expires = None
               \/ Comparable(user.token[1].expires[1])) =>
              /\ ~ret.fetched
              /\ ret.result = RetL(ret.storedBefore[1])

\* C20: a failed project-list fetch leaves the state unchanged: no entry is
\* stored in the project cache for the token and the User's stored list stays
\* unset, so the next read of authorized_tenants by a still authenticated user
\* makes the upstream call again.
C20_FailedFetchStoresNothing ==
    /\ FailedFetch =>
          /\ user.token[1].id \notin DOMAIN cache
          /\ user.authorized_tenants = None
    /\ (/\ ret.op = "authorized_tenants"
        /\ ret.afterFailedFetch
        /\ TokenCheckHolds(ret.at)) =>
          /\ ret.fetched
          /\ fetch.api # "none"

\* C20 witness: a read whose listing call failed with a client error returned
\* the empty list, and the next read, by the user still authenticated, called
\* upstream again and got the projects.
C20_Witness ==
    /\ ret.op = "authorized_tenants"
    /\ ret.afterFailedFetch
    /\ ret.fetched
    /\ fetch.api # "none"
    /\ fetch.response.exc = "none"
    /\ ret.result.val # <<>>
    /\ user.authorized_tenants = Some(ret.result.val)

=============================================================================
